---- MODULE Spec2Model ----
(***************************************************************************)
(* two_level_array_t and two_level_nevershrink_array_t                     *)
(* (src/containers/two_level_array.hpp): a fixed outer table of chunk      *)
(* handles, each chunk a fixed block of value slots.                       *)
(*                                                                         *)
(* Integer types are modelled with their wrap-around, at scaled widths:    *)
(* size_t is SizeBits wide and unsigned, key_t (the parameter type of      *)
(* chunk_for_key / index_for_key, the system's signed int) is KeyBits wide *)
(* and signed, KeyBits < SizeBits as 32 < 64.                              *)
(***************************************************************************)
EXTENDS Integers, FiniteSets, Sequences, TLC

VARIABLES variant,      \* which template is instantiated
          max_size,     \* template parameter
          chunk_size,   \* template parameter
          chunks,       \* the outer table: chunk id -> address or NULL
          heap,         \* live chunk_t objects: address -> chunk
          ref,          \* a value_t& the caller keeps (never-shrink variant)
          pc,           \* "unbuilt", "running" or "aborted"
          last,         \* the last call made, see Did
          shadow,       \* history: per key < max_size, the last value written by that key
          oob,          \* history: some call was made with a key >= max_size
          calls,        \* two threads inside set: thread -> frame (SpecRace)
          raced,        \* history: a thread ran while the other was inside set
          twin          \* a second container fed the same calls (SpecBoth)

vars == <<variant, max_size, chunk_size, chunks, heap, ref, pc, last, shadow, oob,
          calls, raced, twin>>

\* what only the two-thread and the two-container scenarios change
scenario == <<calls, raced, twin>>

---------------------------------------------------------------------------
(* Bounds and scaled type widths *)

MaxChunkSize == 3
MaxValue == 2

SizeBits == 4
KeyBits == 3

SizeMod == 2 ^ SizeBits
KeyMod == 2 ^ KeyBits

SizeT == 0 .. SizeMod - 1

\* FAKE_UNRUNNABLE_MAX_TWO_LEVEL_ARRAY_SIZE: the largest value of an int
INT_MAX_ == KeyMod \div 2 - 1

NULL == 0
DefaultValue == 0
Unwritten == 0 - 1

Value == 0 .. MaxValue

\* conversion to bool of a value_t
Truthy(v) == v # DefaultValue

---------------------------------------------------------------------------
(* Key derivation *)

\* size_t argument passed to a key_t parameter: the low KeyBits bits, signed
ToKeyT(k) ==
    LET m == k % KeyMod
    IN  IF m >= KeyMod \div 2 THEN m - KeyMod ELSE m

\* key_t operand of an arithmetic operator whose other operand is size_t
ToSizeT(x) == x % SizeMod

NumChunksDropPlusOne(ms, cs) == (ms \div cs) % SizeMod

NumChunksOf(ms, cs) == (ms \div cs + 1) % SizeMod

num_chunks == NumChunksOf(max_size, chunk_size)

\* the chunk_id chunk_for_key computes from its key_t parameter
chunk_for_key(key) == ToSizeT(ToKeyT(key)) \div chunk_size

RassertOffByOne(key) == chunk_for_key(key) + 1 < num_chunks

\* rassert(chunk_id < num_chunks) of chunk_for_key
rassert_chunk_id(key) == chunk_for_key(key) < num_chunks

IndexForKeyDivides(key) == ToSizeT(ToKeyT(key)) \div chunk_size

index_for_key(key) == ToSizeT(ToKeyT(key)) % chunk_size

---------------------------------------------------------------------------
(* Chunks and the heap *)

\* addresses operator new can return, any one that is not in use: as many as
\* the table has handles, so that new never runs out
Addr == 1 .. num_chunks

FreeAddrs == Addr \ DOMAIN heap

\* chunk_t() of two_level_array_t
NewChunk == [count |-> 0, values |-> [i \in 0 .. chunk_size - 1 |-> DefaultValue]]

NewNsChunkUninit == [values |-> [i \in 0 .. chunk_size - 1 |-> MaxValue]]

\* chunk_t() of two_level_nevershrink_array_t
NewNsChunk == [values |-> [i \in 0 .. chunk_size - 1 |-> DefaultValue]]

HeapNew(h, a, c) == [b \in DOMAIN h \cup {a} |-> IF b = a THEN c ELSE h[b]]

HeapDelete(h, a) == [b \in DOMAIN h \ {a} |-> h[b]]

NoRef == [addr |-> NULL, idx |-> 0]

\* the two threads of the two-thread scenario, and the frame of a thread that
\* is not inside set
Threads == {1, 2}

IdleFrame == [pc |-> "idle", key |-> 0, value |-> DefaultValue, chunk |-> NULL, tmp |-> 0]

NoCalls == [t \in Threads |-> IdleFrame]

\* no second container
NoTwin == [chunks |-> [i \in {} |-> NULL], heap |-> [a \in {} |-> NewChunk],
           got |-> [shrink |-> DefaultValue, ns |-> DefaultValue]]

NoCall == [op |-> "none", newed |-> FALSE, deleted |-> FALSE,
           inrange |-> TRUE, beyond |-> FALSE]


InRange(k) == k < max_size

\* the key as chunk_for_key and index_for_key see it
Narrowed(k) == ToSizeT(ToKeyT(k))

\* the record of a call: its name, whether it ran new / delete, whether its key
\* was below max_size, and whether its key, as chunk_for_key sees it, was at or
\* beyond the last slot of the table
Did(op, key, newed, deleted) ==
    [op |-> op, newed |-> newed, deleted |-> deleted,
     inrange |-> InRange(key),
     beyond |-> Narrowed(key) >= num_chunks * chunk_size]

\* shadow is kept while every call so far had its key below max_size
NoHistory == [k \in 0 .. max_size - 1 |-> Unwritten]

Track(k, v) == IF oob \/ ~InRange(k) THEN NoHistory ELSE [shadow EXCEPT ![k] = v]

Seen(k) == IF oob \/ ~InRange(k) THEN NoHistory ELSE shadow

---------------------------------------------------------------------------
(* two_level_array_t *)

\* value_t get(size_t key) const, lines 69-76, on a key that passes the rassert,
\* of the container with table t and chunks h
getOn(t, h, key) ==
    LET chunk_id == chunk_for_key(key)
    IN  IF t[chunk_id] # NULL
        THEN h[t[chunk_id]].values[index_for_key(key)]
        ELSE DefaultValue

get(key) == getOn(chunks, heap, key)

\* a range check that fails only after the call has run new
AbortAfterNew(op, key) ==
    /\ pc' = "aborted"
    /\ last' = Did(op, key, TRUE, FALSE)
    /\ oob' = (oob \/ ~InRange(key))
    /\ shadow' = NoHistory
    /\ ref' = NoRef
    /\ \E a \in FreeAddrs : heap' = HeapNew(heap, a, NewChunk)
    /\ UNCHANGED <<variant, max_size, chunk_size, chunks>>

\* a failed rassert: the process ends inside the call, which returns nothing;
\* the histories end with it
Abort(op, key) ==
    /\ pc' = "aborted"
    /\ last' = Did(op, key, FALSE, FALSE)
    /\ oob' = (oob \/ ~InRange(key))
    /\ shadow' = NoHistory
    /\ ref' = NoRef
    /\ UNCHANGED <<variant, max_size, chunk_size, chunks, heap>>

\* a get that finds its slot the way operator[] does
GetLikeIndex(key) ==
    /\ pc = "running"
    /\ variant = "shrink"
    /\ UNCHANGED scenario
    /\ IF ~rassert_chunk_id(key)
       THEN Abort("get", key)
       ELSE /\ oob' = (oob \/ ~InRange(key))
            /\ shadow' = Seen(key)
            /\ UNCHANGED <<variant, max_size, chunk_size, ref, pc>>
            /\ IF chunks[chunk_for_key(key)] # NULL
               THEN /\ last' = Did("get", key, FALSE, FALSE)
                    /\ UNCHANGED <<chunks, heap>>
               ELSE \E a \in FreeAddrs :
                       /\ chunks' = [chunks EXCEPT ![chunk_for_key(key)] = a]
                       /\ heap' = HeapNew(heap, a, NewChunk)
                       /\ last' = Did("get", key, TRUE, FALSE)

Get(key) ==
    /\ pc = "running"
    /\ variant = "shrink"
    /\ UNCHANGED scenario
    /\ IF ~rassert_chunk_id(key)
       THEN Abort("get", key)
       ELSE /\ last' = Did("get", key, FALSE, FALSE)
            /\ oob' = (oob \/ ~InRange(key))
            /\ shadow' = Seen(key)
            /\ UNCHANGED <<variant, max_size, chunk_size, chunks, heap, ref, pc>>

SetEarlyExitAnyChunk(value, chunk) == ~Truthy(value)

SetEarlyExitNever(value, chunk) == FALSE

\* line 82: if (!value && !chunk) return;
SetEarlyExit(value, chunk) == ~Truthy(value) /\ chunk = NULL

CountAfterNoDecrement(count, old, value) ==
    IF Truthy(value) THEN (count + 1) % SizeMod ELSE count

\* lines 90-96: the count after the slot that held old is overwritten with value
CountAfter(count, old, value) ==
    LET dec == IF Truthy(old) THEN (count - 1) % SizeMod ELSE count
    IN  IF Truthy(value) THEN (dec + 1) % SizeMod ELSE dec

SetFreesNever(count) == FALSE

\* line 98: if (chunk->count == 0)
SetFrees(count) == count = 0

SetKeepsHandle(t, chunk_id) == t

\* line 99: chunks[chunk_id] = NULL;
SetClearsHandle(t, chunk_id) == [t EXCEPT ![chunk_id] = NULL]

\* lines 88-101 of set on the container with table t and chunks h, with a the
\* address operator new returns when it is called
SetOn(t, h, key, value, a) ==
    LET chunk_id == chunk_for_key(key)
        idx == index_for_key(key)
        old_chunk == t[chunk_id]
        chunk == IF old_chunk = NULL THEN a ELSE old_chunk
        heap1 == IF old_chunk = NULL THEN HeapNew(h, a, NewChunk) ELSE h
        chunks1 == [t EXCEPT ![chunk_id] = chunk]
        count2 == CountAfter(heap1[chunk].count, heap1[chunk].values[idx], value)
        heap2 == [heap1 EXCEPT ![chunk] =
                     [count |-> count2,
                      values |-> [heap1[chunk].values EXCEPT ![idx] = value]]]
    IN  IF SetFrees(count2)
        THEN [chunks |-> SetClearsHandle(chunks1, chunk_id),
              heap |-> HeapDelete(heap2, chunk),
              newed |-> old_chunk = NULL, deleted |-> TRUE]
        ELSE [chunks |-> chunks1, heap |-> heap2,
              newed |-> old_chunk = NULL, deleted |-> FALSE]

SetBody(key, value, a) ==
    LET r == SetOn(chunks, heap, key, value, a)
    IN  /\ chunks' = r.chunks
        /\ heap' = r.heap
        /\ last' = Did("set", key, r.newed, r.deleted)

Set(key, value) ==
    /\ pc = "running"
    /\ variant = "shrink"
    /\ UNCHANGED scenario
    /\ IF ~rassert_chunk_id(key)
       THEN Abort("set", key)
       ELSE /\ oob' = (oob \/ ~InRange(key))
            /\ shadow' = Track(key, value)
            /\ UNCHANGED <<variant, max_size, chunk_size, ref, pc>>
            /\ IF SetEarlyExit(value, chunks[chunk_for_key(key)])
               THEN /\ last' = Did("set", key, FALSE, FALSE)
                    /\ UNCHANGED <<chunks, heap>>
               ELSE \E a \in (IF chunks[chunk_for_key(key)] = NULL
                                THEN FreeAddrs ELSE {NULL}) :
                        SetBody(key, value, a)

---------------------------------------------------------------------------
(* two_level_nevershrink_array_t *)

\* value_t &operator[](size_t key), lines 141-149, on a key that passes the
\* rassert; a is the address operator new returns when it is called
NsAllocatesAlways(key) == TRUE

NsAllocatesNever(key) == FALSE

\* line 143: the else branch of if (chunks[chunk_id])
NsAllocates(key) == chunks[chunk_for_key(key)] = NULL

NsIndex(key, a) ==
    LET chunk_id == chunk_for_key(key)
        idx == index_for_key(key)
    IN  IF ~NsAllocates(key)
        THEN [chunks |-> chunks, heap |-> heap, newed |-> FALSE,
              slot |-> [addr |-> chunks[chunk_id], idx |-> idx]]
        ELSE [chunks |-> [chunks EXCEPT ![chunk_id] = a],
              heap |-> HeapNew(heap, a, NewNsChunk), newed |-> TRUE,
              slot |-> [addr |-> a, idx |-> idx]]

\* what operator new can return in a call that runs it
NsAddrChoices(key) == IF NsAllocates(key) THEN FreeAddrs ELSE {NULL}

\* *slot = value
StoreAt(h, slot, value) ==
    [h EXCEPT ![slot.addr] = [values |-> [h[slot.addr].values EXCEPT ![slot.idx] = value]]]

\* container[key] = value
NsAssign(key, value) ==
    /\ pc = "running"
    /\ variant = "nevershrink"
    /\ UNCHANGED scenario
    /\ IF ~rassert_chunk_id(key)
       THEN Abort("assign", key)
       ELSE /\ oob' = (oob \/ ~InRange(key))
            /\ shadow' = Track(key, value)
            /\ UNCHANGED <<variant, max_size, chunk_size, ref, pc>>
            /\ \E a \in NsAddrChoices(key) :
                   LET r == NsIndex(key, a)
                   IN  /\ chunks' = r.chunks
                       /\ heap' = StoreAt(r.heap, r.slot, value)
                       /\ last' = Did("assign", key, r.newed, FALSE)

\* value_t x = container[key]
NsRead(key) ==
    /\ pc = "running"
    /\ variant = "nevershrink"
    /\ UNCHANGED scenario
    /\ IF ~rassert_chunk_id(key)
       THEN Abort("read", key)
       ELSE /\ oob' = (oob \/ ~InRange(key))
            /\ shadow' = Seen(key)
            /\ UNCHANGED <<variant, max_size, chunk_size, ref, pc>>
            /\ \E a \in NsAddrChoices(key) :
                   LET r == NsIndex(key, a)
                   IN  /\ chunks' = r.chunks
                       /\ heap' = r.heap
                       /\ last' = Did("read", key, r.newed, FALSE)

\* value_t &p = container[key], kept by the caller
NsTakeRef(key) ==
    /\ pc = "running"
    /\ variant = "nevershrink"
    /\ UNCHANGED scenario
    /\ IF ~rassert_chunk_id(key)
       THEN Abort("takeref", key)
       ELSE /\ oob' = (oob \/ ~InRange(key))
            /\ shadow' = Seen(key)
            /\ UNCHANGED <<variant, max_size, chunk_size, pc>>
            /\ \E a \in NsAddrChoices(key) :
                   LET r == NsIndex(key, a)
                   IN  /\ chunks' = r.chunks
                       /\ heap' = r.heap
                       /\ ref' = r.slot
                       /\ last' = Did("takeref", key, r.newed, FALSE)

\* the least key whose slot the kept reference designates
RefKey ==
    CHOOSE k \in SizeT :
        /\ k \div chunk_size \in DOMAIN chunks
        /\ chunks[k \div chunk_size] = ref.addr
        /\ k % chunk_size = ref.idx

\* p = value, through the reference the caller kept
NsWriteRef(value) ==
    /\ pc = "running"
    /\ variant = "nevershrink"
    /\ UNCHANGED scenario
    /\ ref # NoRef
    /\ heap' = StoreAt(heap, ref, value)
    /\ shadow' = Track(RefKey, value)
    /\ last' = Did("writeref", RefKey, FALSE, FALSE)
    /\ UNCHANGED <<variant, max_size, chunk_size, chunks, ref, pc, oob>>

\* value_t x = p, through the reference the caller kept
NsReadRef ==
    /\ pc = "running"
    /\ variant = "nevershrink"
    /\ UNCHANGED scenario
    /\ ref # NoRef
    /\ last' = Did("readref", RefKey, FALSE, FALSE)
    /\ UNCHANGED <<variant, max_size, chunk_size, chunks, heap, ref, pc, shadow, oob>>

---------------------------------------------------------------------------
(* two_level_array_t::set run by two threads with no lock: one action per    *)
(* read or write of a chunk handle, a slot or a count. calls[t] is thread    *)
(* t's frame: where it is in set, its arguments, its local chunk pointer and *)
(* the count it has read.                                                    *)

Inside(t) == calls[t].pc \notin {"idle", "done"}

Other(t) == CHOOSE u \in Threads : u # t

\* no thread is inside set
Settled == \A t \in Threads : ~Inside(t)

\* no thread has called set yet
Quiet == \A t \in Threads : calls[t].pc = "idle"

\* one address more than the table has handles, for the chunk a lost handle
\* leaves allocated
RaceAddr == 1 .. num_chunks + 1

DoneFrame == [IdleFrame EXCEPT !.pc = "done"]

\* the values the two threads pass: the default value and a non-default one
RaceValues == {DefaultValue, MaxValue}

DecrLost(n) == n

\* --chunk->count on a size_t
Decr(n) == (n - 1) % SizeMod

\* ++chunk->count on a size_t
Incr(n) == (n + 1) % SizeMod

\* thread t, at the given place of set, takes a step
At(t, place) ==
    /\ pc = "running"
    /\ variant = "shrink"
    /\ calls[t].pc = place
    /\ raced' = (raced \/ Inside(Other(t)))
    /\ UNCHANGED <<variant, max_size, chunk_size, ref, last, shadow, oob, twin>>

\* thread t goes on to the given place
Goto(t, place) == calls' = [calls EXCEPT ![t].pc = place]

\* thread t dereferences its chunk pointer after the chunk was deleted:
\* undefined behaviour, after which nothing is known of the program
UsesFreed(t) == calls[t].chunk \notin DOMAIN heap

Undefined ==
    /\ pc' = "undefined"
    /\ UNCHANGED <<chunks, heap, calls>>

\* lines 79-86: the call, the read of the handle and the early exit
SetBegin(t, key, value) ==
    /\ pc = "running"
    /\ variant = "shrink"
    /\ calls[t].pc = "idle"
    /\ InRange(key)
    /\ raced' = (raced \/ Inside(Other(t)))
    /\ LET chunk == chunks[chunk_for_key(key)]
       IN  calls' = [calls EXCEPT ![t] =
                        IF SetEarlyExit(value, chunk)
                        THEN DoneFrame
                        ELSE [pc |-> IF chunk = NULL THEN "new" ELSE "read_slot",
                              key |-> key, value |-> value, chunk |-> chunk, tmp |-> 0]]
    /\ last' = NoCall
    /\ shadow' = NoHistory
    /\ UNCHANGED <<variant, max_size, chunk_size, chunks, heap, ref, pc, oob, twin>>

\* line 88: chunk = chunks[chunk_id] = new chunk_t
SetNew(t) ==
    /\ At(t, "new")
    /\ \E a \in RaceAddr \ DOMAIN heap :
           /\ heap' = HeapNew(heap, a, NewChunk)
           /\ chunks' = [chunks EXCEPT ![chunk_for_key(calls[t].key)] = a]
           /\ calls' = [calls EXCEPT ![t].chunk = a, ![t].pc = "read_slot"]
    /\ UNCHANGED pc

\* line 90: if (chunk->values[index_for_key(key)])
SetReadSlot(t) ==
    /\ At(t, "read_slot")
    /\ IF UsesFreed(t)
       THEN Undefined
       ELSE /\ Goto(t, IF Truthy(heap[calls[t].chunk].values[index_for_key(calls[t].key)])
                       THEN "dec_read" ELSE "write_slot")
            /\ UNCHANGED <<chunks, heap, pc>>

\* line 91: the read of --chunk->count
SetDecRead(t) ==
    /\ At(t, "dec_read")
    /\ IF UsesFreed(t)
       THEN Undefined
       ELSE /\ calls' = [calls EXCEPT ![t].tmp = heap[calls[t].chunk].count,
                                      ![t].pc = "dec_write"]
            /\ UNCHANGED <<chunks, heap, pc>>

\* line 91: the write of --chunk->count
SetDecWrite(t) ==
    /\ At(t, "dec_write")
    /\ IF UsesFreed(t)
       THEN Undefined
       ELSE /\ heap' = [heap EXCEPT ![calls[t].chunk].count = Decr(calls[t].tmp)]
            /\ calls' = [calls EXCEPT ![t].tmp = 0, ![t].pc = "write_slot"]
            /\ UNCHANGED <<chunks, pc>>

\* line 93: chunk->values[index_for_key(key)] = value
SetWriteSlot(t) ==
    /\ At(t, "write_slot")
    /\ IF UsesFreed(t)
       THEN Undefined
       ELSE /\ heap' = [heap EXCEPT
                          ![calls[t].chunk].values[index_for_key(calls[t].key)] =
                              calls[t].value]
            /\ Goto(t, IF Truthy(calls[t].value) THEN "inc_read" ELSE "test_count")
            /\ UNCHANGED <<chunks, pc>>

\* line 95: the read of ++chunk->count
SetIncRead(t) ==
    /\ At(t, "inc_read")
    /\ IF UsesFreed(t)
       THEN Undefined
       ELSE /\ calls' = [calls EXCEPT ![t].tmp = heap[calls[t].chunk].count,
                                      ![t].pc = "inc_write"]
            /\ UNCHANGED <<chunks, heap, pc>>

\* line 95: the write of ++chunk->count
SetIncWrite(t) ==
    /\ At(t, "inc_write")
    /\ IF UsesFreed(t)
       THEN Undefined
       ELSE /\ heap' = [heap EXCEPT ![calls[t].chunk].count = Incr(calls[t].tmp)]
            /\ calls' = [calls EXCEPT ![t].tmp = 0, ![t].pc = "test_count"]
            /\ UNCHANGED <<chunks, pc>>

\* line 98: if (chunk->count == 0)
SetTestCount(t) ==
    /\ At(t, "test_count")
    /\ IF UsesFreed(t)
       THEN Undefined
       ELSE /\ calls' = [calls EXCEPT ![t] =
                            IF SetFrees(heap[calls[t].chunk].count)
                            THEN [calls[t] EXCEPT !.pc = "clear"]
                            ELSE DoneFrame]
            /\ UNCHANGED <<chunks, heap, pc>>

\* line 99: chunks[chunk_id] = NULL
SetClear(t) ==
    /\ At(t, "clear")
    /\ chunks' = SetClearsHandle(chunks, chunk_for_key(calls[t].key))
    /\ Goto(t, "delete")
    /\ UNCHANGED <<heap, pc>>

\* line 100: delete chunk; of a chunk already deleted it is undefined
SetDelete(t) ==
    /\ At(t, "delete")
    /\ IF UsesFreed(t)
       THEN Undefined
       ELSE /\ heap' = HeapDelete(heap, calls[t].chunk)
            /\ calls' = [calls EXCEPT ![t] = DoneFrame]
            /\ UNCHANGED <<chunks, pc>>

\* a set call made before any thread has started, run as one step
SetAlone(key, value) == Quiet /\ InRange(key) /\ Set(key, value)

---------------------------------------------------------------------------
(* The destructors, lines 62-67 and 134-139 *)

\* the addresses the loop of lines 63-65 passes to delete (delete NULL does
\* nothing)
Deleted == {chunks[i] : i \in DOMAIN chunks} \ {NULL}

\* the loop deletes an address that is not a live chunk, or one address twice
DeletesTwice ==
    \/ \E i \in DOMAIN chunks : chunks[i] # NULL /\ chunks[i] \notin DOMAIN heap
    \/ \E i \in DOMAIN chunks, j \in DOMAIN chunks :
          i # j /\ chunks[i] # NULL /\ chunks[i] = chunks[j]

\* ~two_level_array_t() and ~two_level_nevershrink_array_t(): every handle is
\* deleted, then the table; a second delete of one address is undefined
Destroy ==
    /\ pc = "running"
    /\ UNCHANGED scenario
    /\ pc' = IF DeletesTwice THEN "undefined" ELSE "destroyed"
    /\ heap' = [b \in DOMAIN heap \ Deleted |-> heap[b]]
    /\ chunks' = [i \in {} |-> NULL]
    /\ last' = [NoCall EXCEPT !.op = "destroy", !.deleted = (Deleted # {})]
    /\ ref' = NoRef
    /\ shadow' = NoHistory
    /\ UNCHANGED <<variant, max_size, chunk_size, oob>>

---------------------------------------------------------------------------
(* One caller feeding the same writes and reads to a container of each       *)
(* template: the never-shrink one in chunks and heap, the shrinking one in   *)
(* twin.                                                                     *)

\* what operator new can return to the shrinking container's set(key, value)
TwinAddrChoices(key, value) ==
    IF twin.chunks[chunk_for_key(key)] = NULL /\ ~SetEarlyExit(value, NULL)
    THEN Addr \ DOMAIN twin.heap
    ELSE {NULL}

\* twin after set(key, value), lines 78-102; b is the address new returns
TwinSet(key, value, b) ==
    IF SetEarlyExit(value, twin.chunks[chunk_for_key(key)])
    THEN twin
    ELSE LET r == SetOn(twin.chunks, twin.heap, key, value, b)
         IN  [twin EXCEPT !.chunks = r.chunks, !.heap = r.heap]

\* container[key] = value; and set(key, value) on the twin
BothWrite(key, value) ==
    /\ pc = "running"
    /\ variant = "both"
    /\ InRange(key)
    /\ \E a \in NsAddrChoices(key) :
           LET r == NsIndex(key, a)
           IN  /\ chunks' = r.chunks
               /\ heap' = StoreAt(r.heap, r.slot, value)
               /\ last' = Did("assign", key, r.newed, FALSE)
    /\ \E b \in TwinAddrChoices(key, value) : twin' = TwinSet(key, value, b)
    /\ shadow' = Track(key, value)
    /\ UNCHANGED <<variant, max_size, chunk_size, ref, pc, oob, calls, raced>>

\* value_t x = container[key]; and value_t y = get(key) on the twin; got keeps
\* x and y
BothRead(key) ==
    /\ pc = "running"
    /\ variant = "both"
    /\ InRange(key)
    /\ \E a \in NsAddrChoices(key) :
           LET r == NsIndex(key, a)
           IN  /\ chunks' = r.chunks
               /\ heap' = r.heap
               /\ last' = Did("read", key, r.newed, FALSE)
               /\ twin' = [twin EXCEPT !.got =
                              [shrink |-> getOn(twin.chunks, twin.heap, key),
                               ns |-> r.heap[r.slot.addr].values[r.slot.idx]]]
    /\ UNCHANGED <<variant, max_size, chunk_size, ref, pc, shadow, oob, calls, raced>>

---------------------------------------------------------------------------
(* Specifications *)

\* the constructors, lines 57-61 and 129-133: every handle NULL
EmptyTable == [i \in 0 .. num_chunks - 1 |-> NULL]

\* chunks of at least two slots, so that several keys share a chunk
ChunkSizes == 2 .. MaxChunkSize

Built ==
    /\ chunks = EmptyTable
    /\ heap = [a \in {} |-> NewChunk]
    /\ ref = NoRef
    /\ pc = "running"
    /\ last = NoCall
    /\ shadow = NoHistory
    /\ oob = FALSE
    /\ calls = NoCalls
    /\ raced = FALSE

\* an instantiation with max_size up to the default INT_MAX, just constructed
Instance(variants) ==
    /\ variant \in variants
    /\ max_size \in 1 .. INT_MAX_
    /\ chunk_size \in ChunkSizes
    /\ Built
    /\ twin = NoTwin

Init == Instance({"shrink", "nevershrink"})

InitShrink == Instance({"shrink"})

InitNs == Instance({"nevershrink"})

NextShrink ==
    \/ \E key \in SizeT : Get(key)
    \/ \E key \in SizeT, value \in Value : Set(key, value)

NextNs ==
    \/ \E key \in SizeT, value \in Value : NsAssign(key, value)
    \/ \E key \in SizeT : NsRead(key)
    \/ \E key \in SizeT : NsTakeRef(key)
    \/ \E value \in Value : NsWriteRef(value)
    \/ NsReadRef

Next ==
    \/ \E key \in SizeT : Get(key)
    \/ \E key \in SizeT, value \in Value : Set(key, value)
    \/ \E key \in SizeT, value \in Value : NsAssign(key, value)
    \/ \E key \in SizeT : NsRead(key)
    \/ \E key \in SizeT : NsTakeRef(key)
    \/ \E value \in Value : NsWriteRef(value)
    \/ NsReadRef

\* both templates, any key
Spec == Init /\ [][Next]_vars

\* both templates from construction to destruction
NextLife ==
    \/ \E key \in SizeT : Get(key)
    \/ \E key \in SizeT, value \in Value : Set(key, value)
    \/ \E key \in SizeT, value \in Value : NsAssign(key, value)
    \/ \E key \in SizeT : NsRead(key)
    \/ \E key \in SizeT : NsTakeRef(key)
    \/ \E value \in Value : NsWriteRef(value)
    \/ NsReadRef
    \/ Destroy

SpecLife == Init /\ [][NextLife]_vars

\* a container of each template, both just constructed
InitBoth ==
    /\ variant = "both"
    /\ max_size \in 1 .. INT_MAX_
    /\ chunk_size \in ChunkSizes
    /\ Built
    /\ twin = [NoTwin EXCEPT !.chunks = EmptyTable]

NextBoth ==
    \/ \E key \in SizeT, value \in Value : BothWrite(key, value)
    \/ \E key \in SizeT : BothRead(key)

SpecBoth == InitBoth /\ [][NextBoth]_vars

\* set calls by the owner alone, then one set call by each of two threads
NextRace ==
    \/ \E key \in SizeT, value \in Value : SetAlone(key, value)
    \/ \E t \in Threads, key \in SizeT, value \in RaceValues : SetBegin(t, key, value)
    \/ \E t \in Threads : SetNew(t)
    \/ \E t \in Threads : SetReadSlot(t)
    \/ \E t \in Threads : SetDecRead(t)
    \/ \E t \in Threads : SetDecWrite(t)
    \/ \E t \in Threads : SetWriteSlot(t)
    \/ \E t \in Threads : SetIncRead(t)
    \/ \E t \in Threads : SetIncWrite(t)
    \/ \E t \in Threads : SetTestCount(t)
    \/ \E t \in Threads : SetClear(t)
    \/ \E t \in Threads : SetDelete(t)

SpecRace == InitShrink /\ [][NextRace]_vars

\* two_level_array_t alone
SpecShrink == InitShrink /\ [][NextShrink]_vars

\* two_level_nevershrink_array_t alone
SpecNs == InitNs /\ [][NextNs]_vars

\* Instantiation with any pair of positive template arguments, then construction
InitNum ==
    /\ variant \in {"shrink", "nevershrink"}
    /\ max_size \in 1 .. SizeMod - 1
    /\ chunk_size \in 1 .. SizeMod - 1
    /\ chunks = [i \in {} |-> NULL]
    /\ heap = [a \in {} |-> NewChunk]
    /\ ref = NoRef
    /\ pc = "unbuilt"
    /\ last = NoCall
    /\ shadow = NoHistory
    /\ oob = FALSE
    /\ calls = NoCalls
    /\ raced = FALSE
    /\ twin = NoTwin

Construct ==
    /\ pc = "unbuilt"
    /\ UNCHANGED scenario
    /\ pc' = "running"
    /\ chunks' = EmptyTable
    /\ UNCHANGED <<variant, max_size, chunk_size, heap, ref, last, shadow, oob>>

SpecNum == InitNum /\ [][Construct]_vars

---------------------------------------------------------------------------
(* Properties *)

InRangeKeys == 0 .. max_size - 1

\* the slots of chunk handle c that hold a non-default value
TruthySlots(c) == {i \in 0 .. chunk_size - 1 : Truthy(heap[chunks[c]].values[i])}

\* C1: a set(k, v) on a key k < max_size is followed by a state in which
\* get(k) returns v, whatever calls came before.
C1_SetThenGet ==
    [][\A k \in SizeT, v \in Value :
          (InRange(k) /\ Set(k, v)) => (pc' = "running" /\ get(k)' = v)]_vars

\* after a set of a non-default value and after a set of the default value
C1_Witness ==
    /\ variant = "shrink" /\ pc = "running" /\ ~oob /\ last.op = "set"
    /\ \E k \in InRangeKeys, j \in InRangeKeys :
          /\ shadow[k] = MaxValue /\ get(k) = MaxValue
          /\ chunk_for_key(j) = chunk_for_key(k)
          /\ shadow[j] = DefaultValue /\ get(j) = DefaultValue

\* C2: while every call has had its key below max_size, a key no set call has
\* targeted reads as the default value.
C2_NeverWrittenIsDefault ==
    (variant = "shrink" /\ pc = "running" /\ ~oob) =>
        \A k \in InRangeKeys : shadow[k] = Unwritten => get(k) = DefaultValue

\* a never-written key whose chunk another key has allocated
C2_Witness ==
    /\ variant = "shrink" /\ pc = "running" /\ ~oob
    /\ \E k \in InRangeKeys :
          /\ shadow[k] = Unwritten
          /\ chunks[chunk_for_key(k)] # NULL

\* C3: a chunk handle is present exactly when some slot of its chunk holds a
\* non-default value.
C3_PresentIffNonDefault ==
    variant = "shrink" =>
        \A c \in DOMAIN chunks :
            /\ chunks[c] # NULL => (chunks[c] \in DOMAIN heap /\ TruthySlots(c) # {})
            /\ chunks[c] = NULL => \A k \in SizeT :
                   (rassert_chunk_id(k) /\ chunk_for_key(k) = c) => get(k) = DefaultValue

\* one key of a chunk cleared, another still set: the chunk stays
C3_Witness ==
    /\ variant = "shrink" /\ pc = "running" /\ ~oob /\ last.op = "set"
    /\ \E k \in InRangeKeys :
          /\ shadow[k] = DefaultValue
          /\ chunks[chunk_for_key(k)] # NULL
          /\ Cardinality(TruthySlots(chunk_for_key(k))) = 1

\* C4: set(k, default) on a key whose chunk is absent runs neither new nor
\* delete and leaves the table and every chunk as they were.
C4_DefaultOnAbsentIsNoOp ==
    [][\A k \in SizeT :
          (rassert_chunk_id(k) /\ chunks[chunk_for_key(k)] = NULL /\ Set(k, DefaultValue))
          => /\ chunks' = chunks
             /\ heap' = heap
             /\ ~last'.newed /\ ~last'.deleted
             /\ get(k)' = DefaultValue]_vars

\* a set of the default value has been the only call, and nothing is allocated
C4_Witness ==
    /\ variant = "shrink" /\ pc = "running" /\ ~oob /\ last.op = "set"
    /\ DOMAIN heap = {}
    /\ \E k \in InRangeKeys :
          /\ shadow[k] = DefaultValue
          /\ \A j \in InRangeKeys \ {k} : shadow[j] = Unwritten

AccessOps == {"get", "set", "assign", "read", "takeref"}

\* C5 as stated: once a call has been made with a key >= max_size, the program
\* has ended in the fatal assertion.
C5_BeyondCapacityAborts == oob => pc = "aborted"

\* C5 amended: an access ends in the fatal assertion exactly when its key, as
\* received through the key_t parameter, is at or beyond num_chunks * chunk_size,
\* and then it changes no handle and no chunk; keys from max_size up to that
\* bound are served.
C5_BeyondTableAborts ==
    [][last'.op \in AccessOps =>
          /\ pc' = "aborted" <=> last'.beyond
          /\ pc' = "aborted" => (chunks' = chunks /\ heap' = heap)]_vars

\* an access has ended in the fatal assertion
C5_Witness ==
    /\ pc = "aborted" /\ ~last.inrange /\ last.beyond
    /\ last.op \in AccessOps

RefDesignates ==
    ref # NoRef =>
        /\ ref.addr \in DOMAIN heap
        /\ ref.idx < chunk_size
        /\ \E c \in DOMAIN chunks : chunks[c] = ref.addr

\* C7: never-shrink variant: a present handle keeps its chunk in every step,
\* and a kept reference keeps designating a slot of a live chunk of the table.
C7_ChunksPersist ==
    [][/\ \A c \in DOMAIN chunks :
              chunks[c] # NULL => (chunks'[c] = chunks[c] /\ chunks[c] \in DOMAIN heap')
       /\ RefDesignates'
       /\ (ref # NoRef /\ ref' = ref) =>
              \A c \in DOMAIN chunks : chunks[c] = ref.addr => chunks'[c] = ref.addr]_vars

\* the default value was written back through the kept reference and every
\* slot of its chunk holds the default value again
C7_Witness ==
    /\ variant = "nevershrink" /\ pc = "running" /\ ~oob
    /\ last.op = "writeref"
    /\ ref.addr \in DOMAIN heap
    /\ \A i \in 0 .. chunk_size - 1 : heap[ref.addr].values[i] = DefaultValue
    /\ \E k \in InRangeKeys : shadow[k] = DefaultValue

\* what a read of container[key] returns in the current state
NsPeek(key) ==
    LET a == IF NsAllocates(key) THEN CHOOSE b \in FreeAddrs : TRUE ELSE NULL
        r == NsIndex(key, a)
    IN  r.heap[r.slot.addr].values[r.slot.idx]

\* C8: never-shrink variant: while every call has had its key below max_size,
\* container[k] reads as the last value written to k, and as the default value
\* when nothing was written to k.
C8_NsRoundTrip ==
    (variant = "nevershrink" /\ pc = "running" /\ ~oob) =>
        \A k \in InRangeKeys :
            NsPeek(k) = IF shadow[k] = Unwritten THEN DefaultValue ELSE shadow[k]

\* a key never written, in a chunk that a write to another key allocated
C8_Witness ==
    /\ variant = "nevershrink" /\ pc = "running" /\ ~oob
    /\ \E k \in InRangeKeys, j \in InRangeKeys :
          /\ chunk_for_key(j) = chunk_for_key(k)
          /\ shadow[k] = Unwritten
          /\ shadow[j] = MaxValue
          /\ NsPeek(j) = MaxValue
          /\ chunks[chunk_for_key(k)] # NULL

\* the least n with n * cs >= ms
Ceil(ms, cs) == CHOOSE n \in 0 .. ms : n * cs >= ms /\ (n - 1) * cs < ms

\* C9 as stated: the table has ceil(max_size / chunk_size) handles.
C9_NumChunksIsCeil ==
    pc = "running" => Cardinality(DOMAIN chunks) = Ceil(max_size, chunk_size)

\* C9 amended: the table has ceil(max_size / chunk_size) handles when
\* chunk_size does not divide max_size, and one more (in size_t arithmetic)
\* when it does.
C9_NumChunksIsFloorPlusOne ==
    pc = "running" =>
        Cardinality(DOMAIN chunks) =
            IF max_size % chunk_size = 0
            THEN (Ceil(max_size, chunk_size) + 1) % SizeMod
            ELSE Ceil(max_size, chunk_size)

\* a table built for a max_size that chunk_size divides
C9_Witness ==
    /\ pc = "running"
    /\ max_size % chunk_size = 0
    /\ chunk_size > 1
    /\ Cardinality(DOMAIN chunks) = max_size \div chunk_size + 1

\* C10: get changes no chunk handle, no slot and no count, and runs no new.
C10_GetIsPure ==
    [][\A k \in SizeT :
          Get(k) => (chunks' = chunks /\ heap' = heap /\ ~last'.newed)]_vars

\* a get has returned while every chunk of the table is absent
C10_Witness ==
    /\ variant = "shrink" /\ pc = "running" /\ ~oob /\ last.op = "get"
    /\ DOMAIN heap = {}
    /\ \E k \in InRangeKeys : chunks[chunk_for_key(k)] = NULL

\* C11: shrinking variant: the count of every present chunk is the number of
\* its slots that hold a non-default value.
C11_CountIsTruthySlots ==
    variant = "shrink" =>
        \A c \in DOMAIN chunks :
            chunks[c] # NULL =>
                /\ chunks[c] \in DOMAIN heap
                /\ heap[chunks[c]].count = Cardinality(TruthySlots(c))

\* only one key was ever written, and the last set found its chunk present and
\* left it present: a non-default value was overwritten with a non-default one
C11_Witness ==
    /\ variant = "shrink" /\ pc = "running" /\ ~oob
    /\ last.op = "set" /\ ~last.newed /\ ~last.deleted
    /\ \E k \in InRangeKeys :
          /\ Truthy(shadow[k])
          /\ \A j \in InRangeKeys \ {k} : shadow[j] = Unwritten
          /\ chunks[chunk_for_key(k)] # NULL
          /\ heap[chunks[chunk_for_key(k)]].count = 1

\* the keys k for which the step may have been a returning call with key k
ReturnedKeys == {k \in SizeT : last'.inrange = InRange(k) /\ rassert_chunk_id(k)}

\* C12: shrinking variant: set(k, v) runs new exactly when v is non-default and
\* k's chunk is absent; the chunk it allocates holds v at k's slot and the
\* default value at every other slot, with count 1; no set call runs both new
\* and delete.
C12_SetAllocatesOnNonDefaultOnAbsent ==
    [][last'.op = "set" => \A k \in ReturnedKeys, v \in Value :
          Set(k, v) =>
              LET c == chunk_for_key(k)
              IN  /\ last'.newed <=> (Truthy(v) /\ chunks[c] = NULL)
                  /\ last'.newed =>
                        /\ chunks'[c] # NULL
                        /\ chunks'[c] \notin DOMAIN heap
                        /\ chunks'[c] \in DOMAIN heap'
                        /\ heap'[chunks'[c]].count = 1
                        /\ \A i \in 0 .. chunk_size - 1 :
                              heap'[chunks'[c]].values[i] =
                                  IF i = index_for_key(k) THEN v ELSE DefaultValue
                  /\ ~(last'.newed /\ last'.deleted)]_vars

\* the last set allocated the only chunk there is, for the only key written
C12_Witness ==
    /\ variant = "shrink" /\ pc = "running" /\ ~oob
    /\ last.op = "set" /\ last.newed /\ ~last.deleted
    /\ Cardinality(DOMAIN heap) = 1
    /\ \E k \in InRangeKeys :
          /\ Truthy(shadow[k])
          /\ \A j \in InRangeKeys \ {k} : shadow[j] = Unwritten
          /\ chunks[chunk_for_key(k)] \in DOMAIN heap

\* C13: never-shrink variant: in every state, operator[] on any key the range
\* check lets through returns a slot of the key's chunk with that chunk
\* present, whether or not the caller then writes; when the chunk was absent it
\* runs new and changes no other handle, and when the chunk was present it runs
\* no new and changes no handle and no chunk.
C13_NsFirstAccessAllocates ==
    (variant = "nevershrink" /\ pc = "running") =>
        \A k \in SizeT : rassert_chunk_id(k) =>
            \A a \in NsAddrChoices(k) :
                LET r == NsIndex(k, a)
                    c == chunk_for_key(k)
                IN  /\ r.chunks[c] # NULL
                    /\ r.chunks[c] \in DOMAIN r.heap
                    /\ r.slot = [addr |-> r.chunks[c], idx |-> index_for_key(k)]
                    /\ chunks[c] = NULL =>
                          /\ r.newed
                          /\ r.chunks[c] \notin DOMAIN heap
                          /\ \A d \in DOMAIN chunks \ {c} : r.chunks[d] = chunks[d]
                          /\ \A b \in DOMAIN heap : r.heap[b] = heap[b]
                    /\ chunks[c] # NULL =>
                          /\ ~r.newed
                          /\ r.chunks = chunks
                          /\ r.heap = heap

\* a read was the only call made, and it left a chunk of default values
C13_Witness ==
    /\ variant = "nevershrink" /\ pc = "running" /\ ~oob
    /\ last.op = "read" /\ last.newed
    /\ Cardinality(DOMAIN heap) = 1
    /\ \A k \in InRangeKeys : shadow[k] = Unwritten
    /\ \A a \in DOMAIN heap, i \in 0 .. chunk_size - 1 :
          heap[a].values[i] = DefaultValue

\* C14 as stated: the chunk id and the index used for the key of any call are
\* key / chunk_size and key % chunk_size of the size_t key the caller passed,
\* and no other size_t key the table serves has the same chunk id and index.
C14_KeyDerivationFullWidth ==
    [][\A k \in SizeT :
          (\/ Get(k) \/ NsRead(k) \/ NsTakeRef(k)
           \/ \E v \in Value : Set(k, v) \/ NsAssign(k, v)) =>
              /\ chunk_for_key(k) = k \div chunk_size
              /\ index_for_key(k) = k % chunk_size
              /\ \A j \in SizeT \ {k} :
                    (rassert_chunk_id(j) /\ rassert_chunk_id(k)) =>
                        <<chunk_for_key(j), index_for_key(j)>> #
                            <<chunk_for_key(k), index_for_key(k)>>]_vars

\* C16: both variants: while the container lives, every live chunk is the
\* target of exactly one handle and every present handle targets a live chunk;
\* the destructor deletes no address twice, and once it has run no chunk is
\* left allocated.
C16_OwnedOnceFreedOnce ==
    /\ pc \in {"running", "aborted"} =>
          /\ \A a \in DOMAIN heap :
                Cardinality({c \in DOMAIN chunks : chunks[c] = a}) = 1
          /\ \A c \in DOMAIN chunks : chunks[c] # NULL => chunks[c] \in DOMAIN heap
    /\ pc # "undefined"
    /\ pc = "destroyed" => DOMAIN heap = {}

\* the destructor has run on a table that had chunks, and has freed them
C16_Witness ==
    /\ pc = "destroyed"
    /\ last.op = "destroy" /\ last.deleted
    /\ DOMAIN heap = {}

\* C17: shrinking variant: set(k, v) on a key below max_size leaves get(j)
\* as it was for every other key j below max_size, in k's chunk or another,
\* and leaves the handle and the chunk of every other chunk id as they were.
C17_SetFrame ==
    [][last'.op = "set" => \A k \in InRangeKeys, v \in Value :
          Set(k, v) =>
              /\ \A j \in InRangeKeys \ {k} : get(j)' = get(j)
              /\ \A c \in DOMAIN chunks \ {chunk_for_key(k)} :
                    /\ chunks'[c] = chunks[c]
                    /\ chunks[c] # NULL => heap'[chunks[c]] = heap[chunks[c]]]_vars

\* the last set freed its chunk while a key of another chunk holds a
\* non-default value
C17_Witness ==
    /\ variant = "shrink" /\ pc = "running" /\ ~oob
    /\ last.op = "set" /\ last.deleted
    /\ \E j \in InRangeKeys : Truthy(shadow[j]) /\ get(j) = shadow[j]

\* C18: both variants: a call that ends in the fatal assertion has run no new
\* and no delete and leaves every handle and every chunk as they were.
C18_AbortChangesNothing ==
    [][pc' = "aborted" =>
          /\ chunks' = chunks
          /\ heap' = heap
          /\ ~last'.newed /\ ~last'.deleted]_vars

\* a write has ended in the fatal assertion and the chunks allocated before
\* it are still there
C18_Witness ==
    /\ pc = "aborted"
    /\ last.op \in {"set", "assign"}
    /\ DOMAIN heap # {}
    /\ \E c \in DOMAIN chunks : chunks[c] \in DOMAIN heap

\* every present handle targets a live chunk whose count is the number of its
\* non-default slots
CountsMatch ==
    \A c \in DOMAIN chunks :
        chunks[c] # NULL =>
            /\ chunks[c] \in DOMAIN heap
            /\ heap[chunks[c]].count =
                  Cardinality({i \in 0 .. chunk_size - 1 : Truthy(heap[chunks[c]].values[i])})

\* every live chunk is the target of a handle
NoChunkLost == \A a \in DOMAIN heap : \E c \in DOMAIN chunks : chunks[c] = a

\* C15, two calls one after the other: while no thread has run inside the
\* other's set call, no deleted chunk is accessed, and between calls every
\* count is the number of non-default slots and no allocated chunk is lost.
C15_SerialSetsKeepCounts ==
    (variant = "shrink" /\ ~raced) =>
        /\ pc # "undefined"
        /\ Settled => (CountsMatch /\ NoChunkLost)

\* C15, two calls interleaved: both threads have returned from set calls that
\* overlapped, and a count differs from the number of non-default slots
C15_Witness ==
    /\ raced /\ pc = "running"
    /\ \A t \in Threads : calls[t].pc = "done"
    /\ ~CountsMatch

\* two calls interleaved: both threads have returned and a chunk one of them
\* allocated is the target of no handle
C15_LostChunk ==
    /\ raced /\ pc = "running"
    /\ \A t \in Threads : calls[t].pc = "done"
    /\ ~NoChunkLost

\* two calls interleaved: a thread has accessed a chunk the other deleted
C15_UsedFreed == raced /\ pc = "undefined"

\* the chunk ids whose handle is present in table t
Present(t) == {c \in DOMAIN t : t[c] # NULL}

\* C19: fed the same writes and reads on keys below max_size, the shrinking
\* container's get and the never-shrink container's operator[] return the
\* same value at every read, and the chunks present in the shrinking one are
\* always among those present in the never-shrink one.
C19_VariantsReadAlike ==
    variant = "both" =>
        /\ twin.got.shrink = twin.got.ns
        /\ Present(twin.chunks) \subseteq Present(chunks)
        /\ \A k \in InRangeKeys : getOn(twin.chunks, twin.heap, k) = NsPeek(k)

\* both reads have returned a non-default value that a write stored, while a
\* chunk the shrinking container has freed is still present in the other
C19_Witness ==
    /\ variant = "both" /\ pc = "running"
    /\ last.op = "read"
    /\ twin.got.shrink = MaxValue /\ twin.got.ns = MaxValue
    /\ Present(twin.chunks) # Present(chunks)
    /\ \E k \in InRangeKeys : shadow[k] = DefaultValue /\ chunks[chunk_for_key(k)] # NULL
                                /\ twin.chunks[chunk_for_key(k)] = NULL

====
